---- MODULE Spec2Model ----
(***************************************************************************)
(* Scitify: the three retrieval scripts (PubMed_retrieve.py,               *)
(* arXiv_retrieve.py, bioRxiv_retrieve.py) as one state machine.  A        *)
(* behaviour is one invocation of one script: argument validation, keyword *)
(* file loading, the keyword/pagination loops against the upstream source, *)
(* per-article filtering and formatting, and the final write.              *)
(*                                                                         *)
(* Text is a sequence of one-character strings, so that str.lower(),       *)
(* substring tests, str.split() and f-string formatting are computed the   *)
(* way Python computes them.                                               *)
(***************************************************************************)
EXTENDS Integers, Sequences, FiniteSets, TLC

(***************************************************************************)
(* Text primitives (Python str operations used by the scripts)             *)
(***************************************************************************)
Uppers == <<"A","B","C","D","E","F","G","H","I","J","K","L","M",
            "N","O","P","Q","R","S","T","U","V","W","X","Y","Z">>

Lowers == <<"a","b","c","d","e","f","g","h","i","j","k","l","m",
            "n","o","p","q","r","s","t","u","v","w","x","y","z">>

\* the elements of a sequence
Range(s) == {s[i] : i \in 1..Len(s)}

ToLower == [c \in Range(Uppers) |-> Lowers[CHOOSE i \in 1..26 : Uppers[i] = c]]

ToUpper == [c \in Range(Lowers) |-> Uppers[CHOOSE i \in 1..26 : Lowers[i] = c]]

\* one character of str.lower()
LowerChar(c) == IF c \in DOMAIN ToLower THEN ToLower[c] ELSE c

\* one character of str.upper()
UpperChar(c) == IF c \in DOMAIN ToUpper THEN ToUpper[c] ELSE c

\* str.lower()
Lower(s) == [i \in 1..Len(s) |-> LowerChar(s[i])]

\* str.capitalize(): first character upper-cased, the rest lower-cased
Capitalize(s) ==
    [i \in 1..Len(s) |-> IF i = 1 THEN UpperChar(s[i]) ELSE LowerChar(s[i])]

\* Python's `sub in s` on strings
Contains(s, sub) ==
    \E i \in 0..(Len(s) - Len(sub)) : SubSeq(s, i + 1, i + Len(sub)) = sub

\* s[:n]
Prefix(s, n) == SubSeq(s, 1, IF n < Len(s) THEN n ELSE Len(s))

IsSpace(c) == c \in {" ", "\n", "\t"}

\* length of the leading run of non-whitespace characters of s
RECURSIVE WordLen(_)
WordLen(s) ==
    IF s = <<>> \/ IsSpace(Head(s)) THEN 0 ELSE 1 + WordLen(Tail(s))

\* str.split() without arguments: the maximal runs of non-whitespace
RECURSIVE Split(_)
Split(s) ==
    IF s = <<>> THEN <<>>
    ELSE IF IsSpace(Head(s)) THEN Split(Tail(s))
    ELSE <<SubSeq(s, 1, WordLen(s))>> \o Split(SubSeq(s, WordLen(s) + 1, Len(s)))

\* sep.join(parts)
RECURSIVE Join(_, _)
Join(sep, parts) ==
    IF parts = <<>> THEN <<>>
    ELSE IF Len(parts) = 1 THEN parts[1]
    ELSE parts[1] \o sep \o Join(sep, Tail(parts))

\* str.zfill(2) on a string of digits
Zfill2(s) == IF Len(s) >= 2 THEN s ELSE IF Len(s) = 1 THEN <<"0">> \o s ELSE <<"0","0">>

\* the last element of a non-empty sequence
Last(s) == s[Len(s)]

\* the sequences of a sequence put one after the other (writelines, extend)
RECURSIVE Flatten(_)
Flatten(seqs) == IF seqs = <<>> THEN <<>> ELSE Head(seqs) \o Flatten(Tail(seqs))

\* line.strip()
Strip(s) ==
    LET inked == {i \in 1..Len(s) : ~IsSpace(s[i])}
    IN  IF inked = {} THEN <<>>
        ELSE SubSeq(s, CHOOSE i \in inked : \A j \in inked : i <= j,
                       CHOOSE i \in inked : \A j \in inked : j <= i)

\* line.startswith(p)
StartsWith(s, p) == Len(s) >= Len(p) /\ SubSeq(s, 1, Len(p)) = p

\* s.split(sep) for a one-character sep
RECURSIVE SplitOn(_, _)
SplitOn(s, sep) ==
    LET at == {i \in 1..Len(s) : s[i] = sep}
    IN  IF at = {} THEN << s >>
        ELSE LET n == CHOOSE i \in at : \A j \in at : i <= j
             IN  << SubSeq(s, 1, n - 1) >> \o SplitOn(SubSeq(s, n + 1, Len(s)), sep)

\* the lines a text file yields when iterated (the text ends with "\n")
Lines(text) ==
    IF text = <<>> THEN <<>>
    ELSE LET parts == SplitOn(text, "\n")
         IN  IF Last(parts) = <<>> THEN SubSeq(parts, 1, Len(parts) - 1) ELSE parts

DigitChars == <<"0","1","2","3","4","5","6","7","8","9">>

IsDigits(s) == s # <<>> /\ \A i \in 1..Len(s) : \E d \in 1..Len(DigitChars) : DigitChars[d] = s[i]

\* int(s) for a text of decimal digits
RECURSIVE ToNumber(_)
ToNumber(s) ==
    IF s = <<>> THEN 0
    ELSE ToNumber(SubSeq(s, 1, Len(s) - 1)) * 10
         + (CHOOSE d \in 0..9 : DigitChars[d + 1] = Last(s))

(***************************************************************************)
(* Inputs: the keyword file, the upstream articles                         *)
(***************************************************************************)
\* Keys as the user wrote them in the keyword file (any letter case).
KwRna == <<"R","n","a">>

KwDna == <<"d","n","a">>

ExVir == <<"V","I","R">>

ExXY == <<"x"," ","y">>

ReqCas == <<"C","a","s">>

ReqGel == <<"g","e","l">>

JournalCell == <<"C","e","l","l">>

SectionNames == {"keywords", "exclude_keywords", "required_keywords", "journals_of_interest"}

\* A keyword file on disk: whether the path exists, which sections it has,
\* and each section's keys in file order.
KeywordFile(exists, kws, has_kws, ex, req, jr) ==
    [ exists |-> exists,
      present |-> (IF has_kws THEN {"keywords"} ELSE {})
                  \cup (IF ex # <<>> THEN {"exclude_keywords"} ELSE {})
                  \cup (IF req # <<>> THEN {"required_keywords"} ELSE {})
                  \cup (IF jr # <<>> THEN {"journals_of_interest"} ELSE {}),
      keywords |-> kws,
      exclude_keywords |-> ex,
      required_keywords |-> req,
      journals_of_interest |-> jr ]

MissingFile == KeywordFile(FALSE, <<>>, FALSE, <<>>, <<>>, <<>>)

\* The keyword files a run may find: missing, without a keywords section,
\* with an empty one, or with one or two keywords; each optional section
\* either absent or filled.
KeywordFiles(journals) ==
    {MissingFile} \cup
    { KeywordFile(TRUE, k[1], k[2], ex, req, jr) :
        k \in {<< <<>>, FALSE >>, << <<>>, TRUE >>,
               << <<KwRna>>, TRUE >>, << <<KwRna, KwDna>>, TRUE >>},
        ex \in {<<>>, <<ExVir, ExXY>>},
        req \in {<<>>, <<ReqCas, ReqGel>>},
        jr \in journals }

(* The articles the upstream sources hold.  One record carries what each    *)
(* API exposes of the article: PubMed's MedlineCitation/Article (the has_*  *)
(* flags say which optional XML elements are there), arXiv's Atom entry     *)
(* (title, abstract as summary, link, published, names) and bioRxiv's JSON  *)
(* item (title, abstract, doi, published date, authors).  age_days is how   *)
(* many days before the run `published` lies.                               *)
Article1 ==
    [ title |-> <<"R","N","A"," ","G","e","l">>,
      has_title |-> TRUE,
      abstract |-> <<"r","n","a"," ","d","n","a">>,
      has_abstract |-> TRUE,
      AuthorList |-> <<[has_last |-> TRUE, LastName |-> <<"L","i">>,
                       has_initials |-> TRUE, Initials |-> <<"A">>],
                      [has_last |-> TRUE, LastName |-> <<"W","u">>,
                       has_initials |-> FALSE, Initials |-> <<>>]>>,
      has_authors |-> TRUE,
      journal |-> <<"C","e","l","l"," ","R","e","p","o","r","t","s">>,
      PubDate |-> [has_year |-> TRUE, Year |-> <<"2","0","2","3">>,
                   has_month |-> TRUE, Month |-> <<"M","a","r">>,
                   has_day |-> FALSE, Day |-> <<>>],
      has_doi |-> TRUE,
      doi |-> <<"d","1">>,
      link |-> <<"u","1">>,
      published |-> <<"2","0","2","4","-","0","9","-","0","1","T","0","8",":","0","0",":","0","0","Z">>,
      age_days |-> 30,
      names |-> <<<<"A"," ","L","i">>, <<"B"," ","W","u">>>>,
      authors_is_list |-> FALSE,
      authors_str |-> <<"L","i",","," ","A",".",";"," ","W","u",","," ","B",".">> ]

Article2 ==
    [ title |-> <<"A","n","t","i","V","I","R","a","l">>,
      has_title |-> TRUE,
      abstract |-> <<"r","n","a">>,
      has_abstract |-> TRUE,
      AuthorList |-> <<[has_last |-> FALSE, LastName |-> <<>>,
                       has_initials |-> FALSE, Initials |-> <<>>],
                      [has_last |-> TRUE, LastName |-> <<"N","g">>,
                       has_initials |-> TRUE, Initials |-> <<"C">>]>>,
      has_authors |-> TRUE,
      journal |-> <<"N","a","t","u","r","e">>,
      PubDate |-> [has_year |-> TRUE, Year |-> <<"2","0","2","4">>,
                   has_month |-> TRUE, Month |-> <<"d","e","c","e","m","b","e","r">>,
                   has_day |-> TRUE, Day |-> <<"5">>],
      has_doi |-> TRUE,
      doi |-> <<"d","2">>,
      link |-> <<"u","2">>,
      published |-> <<"2","0","2","4","-","1","0","-","0","1","T","0","8",":","0","0",":","0","0","Z">>,
      age_days |-> 1,
      names |-> <<<<"C"," ","N","g">>>>,
      authors_is_list |-> TRUE,
      authors_str |-> <<"N","g",","," ","C",".">> ]

Article3 ==
    [ title |-> <<"x","\n"," ","y">>,
      has_title |-> TRUE,
      abstract |-> <<"d","n","a"," ","c","a","s">>,
      has_abstract |-> TRUE,
      AuthorList |-> <<[has_last |-> TRUE, LastName |-> <<"K","o">>,
                       has_initials |-> TRUE, Initials |-> <<"D">>]>>,
      has_authors |-> TRUE,
      journal |-> <<"c","e","l","l">>,
      PubDate |-> [has_year |-> FALSE, Year |-> <<>>,
                   has_month |-> TRUE, Month |-> <<"J","a","n">>,
                   has_day |-> TRUE, Day |-> <<"2">>],
      has_doi |-> FALSE,
      doi |-> <<"d","3">>,
      link |-> <<"u","3">>,
      published |-> <<"2","0","2","4","-","1","0","-","0","2","T","0","8",":","0","0",":","0","0","Z">>,
      age_days |-> 2,
      names |-> <<<<"D"," ","K","o">>>>,
      authors_is_list |-> FALSE,
      authors_str |-> <<"K","o",","," ","D",".">> ]

Article4 ==
    [ title |-> <<"D","n","a">>,
      has_title |-> FALSE,
      abstract |-> <<"r","n","a">>,
      has_abstract |-> FALSE,
      AuthorList |-> <<>>,
      has_authors |-> FALSE,
      journal |-> <<"N","a","t","u","r","e">>,
      PubDate |-> [has_year |-> TRUE, Year |-> <<"2","0","2","2">>,
                   has_month |-> FALSE, Month |-> <<>>,
                   has_day |-> TRUE, Day |-> <<"1","5">>],
      has_doi |-> FALSE,
      doi |-> <<"d","4">>,
      link |-> <<"u","4">>,
      published |-> <<"2","0","2","4","-","1","0","-","0","3","T","0","8",":","0","0",":","0","0","Z">>,
      age_days |-> 3,
      names |-> <<>>,
      authors_is_list |-> FALSE,
      authors_str |-> <<>> ]

Catalogue == <<Article1, Article2, Article3, Article4>>

ArticleIds == 1..Len(Catalogue)

(***************************************************************************)
(* State of one invocation                                                 *)
(***************************************************************************)
VARIABLES
    script,           \* which script runs: "pubmed", "arxiv" or "biorxiv"
    args,             \* the parsed command line (argparse namespace)
    keyword_file,     \* ../config/<source>_keywords.txt as found on disk
    output_file,      \* ../output/latest_<source>_entries.txt on disk
    output_before,    \* that file as the run found it
    pc,               \* position of the script
    exit_code,        \* the process's exit status, -1 while it runs
    keywords_dict,    \* what load_keywords_from_file returned
    kw,               \* index of the keyword the for loop is at
    offset,           \* retstart (PubMed) / offset (arXiv, bioRxiv)
    results,          \* the upstream result list answering the current query
    entries,          \* accumulated records: a list, for arXiv a dict
    processed_links,  \* arXiv: links already seen
    console,          \* what was printed (stdout and stderr), in order
    requests,         \* every API request issued, in order
    accepted,         \* ids of the articles behind `entries`, in order of acceptance
    failures,         \* the keywords (by index) whose pagination met a failed request
    served,           \* how many results the source has listed for the queries so far
    pub_date,         \* a PubMed PubDate element given to the date formatter
    date_str,         \* the formatted date
    source_files,     \* summarise_papers.py: the three latest_<source>_entries.txt files
    digest            \* ../output/titles_and_urls.txt on disk

vars == << script, args, keyword_file, output_file, output_before, pc, exit_code, keywords_dict,
           kw, offset, results, entries, processed_links, console, requests,
           accepted, failures, served, pub_date, date_str, source_files,
                    digest >>

keywords == keywords_dict.keywords

exclude_keywords == keywords_dict.exclude_keywords

required_keywords == keywords_dict.required_keywords

journals_of_interest == keywords_dict.journals_of_interest

(***************************************************************************)
(* Keyword Configuration Loader                                            *)
(***************************************************************************)
\* list(config[section].keys()) when the section is in the file, else the
\* default []; ConfigParser's optionxform lower-cases every key.
SectionKeys(file, section) ==
    IF section \in file.present
    THEN [i \in 1..Len(file[section]) |-> Lower(file[section][i])]
    ELSE <<>>

\* load_keywords_from_file: None when the path does not exist, else the
\* dict of lists (journals_of_interest is read by the PubMed script only).
load_keywords_from_file(src, file) ==
    IF ~file.exists
    THEN [ is_none |-> TRUE, keywords |-> <<>>, exclude_keywords |-> <<>>,
           required_keywords |-> <<>>, journals_of_interest |-> <<>> ]
    ELSE [ is_none |-> FALSE,
           keywords |-> SectionKeys(file, "keywords"),
           exclude_keywords |-> SectionKeys(file, "exclude_keywords"),
           required_keywords |-> SectionKeys(file, "required_keywords"),
           journals_of_interest |->
               IF src = "pubmed" THEN SectionKeys(file, "journals_of_interest")
               ELSE <<>> ]

(***************************************************************************)
(* Record Formatter                                                        *)
(***************************************************************************)
\* one "Label: value\n" line of a record
Field(label, value) == [label |-> label, value |-> value]

Msg(kind, text, n) == [kind |-> kind, text |-> text, n |-> n]

NoTitle == <<"N","o"," ","T","i","t","l","e">>

NoAbstract == <<"N","o"," ","A","b","s","t","r","a","c","t">>

NoYear == <<"N","o"," ","Y","e","a","r">>

UnknownDate == <<"U","n","k","n","o","w","n"," ","D","a","t","e">>

NoLink == <<"F","u","l","l"," ","t","e","x","t"," ","l","i","n","k"," ",
            "n","o","t"," ","a","v","a","i","l","a","b","l","e">>

DoiPrefix == <<"h","t","t","p","s",":","/","/","d","o","i",".","o","r","g","/">>

CommaSpace == <<",", " ">>

\* PubMed: month names to numbers
month_mapping ==
    (<<"j","a","n">> :> <<"0","1">>) @@ (<<"f","e","b">> :> <<"0","2">>) @@
    (<<"m","a","r">> :> <<"0","3">>) @@ (<<"a","p","r">> :> <<"0","4">>) @@
    (<<"m","a","y">> :> <<"0","5">>) @@ (<<"j","u","n">> :> <<"0","6">>) @@
    (<<"j","u","l">> :> <<"0","7">>) @@ (<<"a","u","g">> :> <<"0","8">>) @@
    (<<"s","e","p">> :> <<"0","9">>) @@ (<<"o","c","t">> :> <<"1","0">>) @@
    (<<"n","o","v">> :> <<"1","1">>) @@ (<<"d","e","c">> :> <<"1","2">>)

\* DateStr as it would be if the month were looked up without .lower()
DateStr_CaseSensitive(pd) ==
    LET year == IF pd.has_year THEN pd.Year ELSE NoYear
        month == Prefix(IF pd.has_month THEN pd.Month ELSE <<>>, 3)
        day == IF pd.has_day THEN pd.Day ELSE <<>>
        month_num == IF month \in DOMAIN month_mapping
                     THEN month_mapping[month] ELSE <<"0","1">>
    IN  IF year # NoYear
        THEN year \o <<"-">> \o month_num \o <<"-">> \o
             (IF day # <<>> THEN Zfill2(day) ELSE <<"0","1">>)
        ELSE UnknownDate

\* PubMed: the Date value built from a PubDate element
DateStr(pd) ==
    LET year == IF pd.has_year THEN pd.Year ELSE NoYear
        month == Prefix(Lower(IF pd.has_month THEN pd.Month ELSE <<>>), 3)
        day == IF pd.has_day THEN pd.Day ELSE <<>>
        month_num == IF month \in DOMAIN month_mapping
                     THEN month_mapping[month] ELSE <<"0","1">>
    IN  IF year # NoYear
        THEN year \o <<"-">> \o month_num \o <<"-">> \o
             (IF day # <<>> THEN Zfill2(day) ELSE <<"0","1">>)
        ELSE UnknownDate

\* PubMed: "Lastname Initials" of the authors that have a LastName, comma-joined
AuthorName(author) ==
    author.LastName \o <<" ">> \o (IF author.has_initials THEN author.Initials ELSE <<>>)

PubMedAuthors(a) ==
    LET HasLast(author) == author.has_last
        named == SelectSeq(IF a.has_authors THEN a.AuthorList ELSE <<>>, HasLast)
    IN  Join(CommaSpace, [i \in 1..Len(named) |-> AuthorName(named[i])])

\* PubMedEntry as it would be if a missing abstract dropped the Abstract line
PubMedEntry_OmitsMissing(a) ==
    << Field("Title", IF a.has_title THEN a.title ELSE NoTitle),
       Field("Authors", PubMedAuthors(a)),
       Field("Journal", Capitalize(Lower(a.journal))),
       Field("Date", DateStr(a.PubDate)),
       Field("URL", IF a.has_doi THEN DoiPrefix \o a.doi ELSE NoLink) >>
    \o (IF a.has_abstract THEN << Field("Abstract", a.abstract) >> ELSE <<>>)

\* PubMed: the entry of one article
PubMedEntry(a) ==
    << Field("Title", IF a.has_title THEN a.title ELSE NoTitle),
       Field("Authors", PubMedAuthors(a)),
       Field("Journal", Capitalize(Lower(a.journal))),
       Field("Date", DateStr(a.PubDate)),
       Field("URL", IF a.has_doi THEN DoiPrefix \o a.doi ELSE NoLink),
       Field("Abstract", IF a.has_abstract THEN a.abstract ELSE NoAbstract) >>

\* arXiv: ' '.join(entry.title.strip().replace('\n', ' ').split())
CleanTitle(title) == Join(<<" ">>, Split(title))

\* arXiv: entry_data of one feed entry; strptime/strftime keep the date part
\* (the first ten characters) of a well-formed `published`
ArxivEntry(a) ==
    << Field("Title", CleanTitle(a.title)),
       Field("Authors", Join(CommaSpace, a.names)),
       Field("Date", Prefix(a.published, 10)),
       Field("URL", a.link),
       Field("Abstract", a.abstract) >>

\* bioRxiv: the authors value, a list joined or the string as it came
BiorxivAuthors(a) ==
    IF a.authors_is_list THEN Join(CommaSpace, a.names) ELSE a.authors_str

\* bioRxiv: the entry of one collection item
BiorxivEntry(a) ==
    << Field("Title", a.title),
       Field("Authors", BiorxivAuthors(a)),
       Field("Date", Prefix(a.published, 10)),
       Field("DOI", a.doi),
       Field("URL", DoiPrefix \o a.doi),
       Field("Abstract", a.abstract) >>

(***************************************************************************)
(* Filter & Dedup Engine: what the scripts do with one fetched article     *)
(***************************************************************************)
\* any(k.lower() in text for k in ks)
AnyIn(ks, text) == \E i \in 1..Len(ks) : Contains(text, Lower(ks[i]))

\* Score as it would be if every required keyword had to be present
Score_AllRequired(ks, text) ==
    IF \A i \in 1..Len(ks) : Contains(text, Lower(ks[i])) THEN Len(ks) ELSE 0

\* sum(k.lower() in text for k in ks)
Score(ks, text) == Cardinality({i \in 1..Len(ks) : Contains(text, Lower(ks[i]))})

\* (title + " " + abstract).lower()
CombinedText(a) == Lower(a.title \o <<" ">> \o a.abstract)

\* `if not args.quiet: print(...)`; st.quiet is args.quiet as the loop reads it
Say(st, m) == IF st.quiet THEN st ELSE [st EXCEPT !.console = Append(@, m)]

\* entries[key] = value on a dict, which keeps the position of a key it has
DictSet(d, key, value) ==
    IF \E i \in 1..Len(d) : d[i].key = key
    THEN [i \in 1..Len(d) |-> IF d[i].key = key THEN [key |-> key, value |-> value] ELSE d[i]]
    ELSE Append(d, [key |-> key, value |-> value])

\* PubMedArticle as it would be if an entry already in `entries` were not
\* appended again
PubMedArticle_Dedup(st, id) ==
    LET a == Catalogue[id]
        journal == Lower(a.journal)
    IN  IF journals_of_interest = <<>> \/ AnyIn(journals_of_interest, journal)
        THEN Say([st EXCEPT !.entries = IF \E n \in 1..Len(@) : @[n] = PubMedEntry(a)
                                        THEN @ ELSE Append(@, PubMedEntry(a)),
                            !.accepted = Append(@, id)],
                 Msg("Retrieved", IF a.has_title THEN a.title ELSE NoTitle, 0))
        ELSE st

\* PubMedArticle as it would be if the journal title were compared as it
\* came, without .lower()
PubMedArticle_JournalAsIs(st, id) ==
    LET a == Catalogue[id]
        journal == a.journal
    IN  IF journals_of_interest = <<>> \/ AnyIn(journals_of_interest, journal)
        THEN Say([st EXCEPT !.entries = Append(@, PubMedEntry(a)),
                            !.accepted = Append(@, id)],
                 Msg("Retrieved", IF a.has_title THEN a.title ELSE NoTitle, 0))
        ELSE st

\* PubMed, body of `for article in fetch_results['PubmedArticle']`
PubMedArticle(st, id) ==
    LET a == Catalogue[id]
        journal == Lower(a.journal)
    IN  IF journals_of_interest = <<>> \/ AnyIn(journals_of_interest, journal)
        THEN Say([st EXCEPT !.entries = Append(@, PubMedEntry(a)),
                            !.accepted = Append(@, id)],
                 Msg("Retrieved", IF a.has_title THEN a.title ELSE NoTitle, 0))
        ELSE st

\* ArxivFeedEntry as it would be if the duplicate check came last and
\* looked at the accepted links only
ArxivFeedEntry_DedupLast(st, id) ==
    LET a == Catalogue[id]
        st1 == Say(st, Msg("Retrieved", a.title, 0))
        combined_text == CombinedText(a)
    IN  IF ~(a.age_days <= args.days_before_today) THEN st1
        ELSE IF AnyIn(exclude_keywords, combined_text)
             THEN Say(st1, Msg("Excluded (excluded keyword)", a.title, 0))
        ELSE IF ~(required_keywords = <<>> \/ Score(required_keywords, combined_text) > 0)
             THEN Say(st1, Msg("Excluded (low score)", a.title, 0))
        ELSE IF a.link \in st1.processed_links THEN st1
        ELSE [st1 EXCEPT !.processed_links = @ \cup {a.link},
                         !.entries = DictSet(@, a.link, ArxivEntry(a)),
                         !.accepted = Append(@, id)]

\* processed_links
ArxivFeedEntry_NoDedup(st, id) ==
    LET a == Catalogue[id]
        st1 == Say(st, Msg("Retrieved", a.title, 0))
        combined_text == CombinedText(a)
    IN  IF ~(a.age_days <= args.days_before_today) THEN st1
        ELSE IF AnyIn(exclude_keywords, combined_text)
             THEN Say(st1, Msg("Excluded (excluded keyword)", a.title, 0))
        ELSE IF ~(required_keywords = <<>> \/ Score(required_keywords, combined_text) > 0)
             THEN Say(st1, Msg("Excluded (low score)", a.title, 0))
        ELSE [st1 EXCEPT !.entries = Append(@, [key |-> a.link, value |-> ArxivEntry(a)]),
                         !.accepted = Append(@, id)]

\* ArxivFeedEntry as it would be without the date-range test
ArxivFeedEntry_AnyDate(st, id) ==
    LET a == Catalogue[id]
        st1 == Say(st, Msg("Retrieved", a.title, 0))
        st2 == [st1 EXCEPT !.processed_links = @ \cup {a.link}]
        combined_text == CombinedText(a)
    IN  IF a.link \in st1.processed_links THEN st1
        ELSE IF AnyIn(exclude_keywords, combined_text)
             THEN Say(st2, Msg("Excluded (excluded keyword)", a.title, 0))
        ELSE IF ~(required_keywords = <<>> \/ Score(required_keywords, combined_text) > 0)
             THEN Say(st2, Msg("Excluded (low score)", a.title, 0))
        ELSE [st2 EXCEPT !.entries = DictSet(@, a.link, ArxivEntry(a)),
                         !.accepted = Append(@, id)]

\* arXiv, body of `for entry in response.entries`
ArxivFeedEntry(st, id) ==
    LET a == Catalogue[id]
        st1 == Say(st, Msg("Retrieved", a.title, 0))
        st2 == [st1 EXCEPT !.processed_links = @ \cup {a.link}]
        combined_text == CombinedText(a)
    IN  IF a.link \in st1.processed_links THEN st1
        ELSE IF ~(a.age_days <= args.days_before_today) THEN st2
        ELSE IF AnyIn(exclude_keywords, combined_text)
             THEN Say(st2, Msg("Excluded (excluded keyword)", a.title, 0))
        ELSE IF ~(required_keywords = <<>> \/ Score(required_keywords, combined_text) > 0)
             THEN Say(st2, Msg("Excluded (low score)", a.title, 0))
        ELSE [st2 EXCEPT !.entries = DictSet(@, a.link, ArxivEntry(a)),
                         !.accepted = Append(@, id)]

\* BiorxivItem as it would be if the keyword were looked for in the title too
BiorxivItem_TitleToo(st, id, keyword) ==
    LET a == Catalogue[id]
        abstract == Lower(a.abstract)
        combined_text == CombinedText(a)
    IN  IF ~Contains(combined_text, Lower(keyword)) THEN st
        ELSE IF exclude_keywords # <<>> /\ AnyIn(exclude_keywords, combined_text)
             THEN Say(st, Msg("Excluded (excluded keyword)", a.title, 0))
        ELSE IF required_keywords # <<>> /\ Score(required_keywords, combined_text) = 0
             THEN Say(st, Msg("Excluded (missing required keyword)", a.title, 0))
        ELSE Say([st EXCEPT !.entries = Append(@, BiorxivEntry(a)),
                            !.accepted = Append(@, id)],
                 Msg("Retrieved", a.title, 0))

\* BiorxivItem as it would be if each `continue` stood inside the
\* `if not args.quiet:` above it
BiorxivItem_ContinueInsideGuard(st, id, keyword) ==
    LET a == Catalogue[id]
        abstract == Lower(a.abstract)
        combined_text == CombinedText(a)
    IN  IF ~Contains(abstract, Lower(keyword)) THEN st
        ELSE IF exclude_keywords # <<>> /\ AnyIn(exclude_keywords, combined_text)
                /\ ~st.quiet
             THEN Say(st, Msg("Excluded (excluded keyword)", a.title, 0))
        ELSE IF required_keywords # <<>> /\ Score(required_keywords, combined_text) = 0
                /\ ~st.quiet
             THEN Say(st, Msg("Excluded (missing required keyword)", a.title, 0))
        ELSE Say([st EXCEPT !.entries = Append(@, BiorxivEntry(a)),
                            !.accepted = Append(@, id)],
                 Msg("Retrieved", a.title, 0))

\* bioRxiv, body of `for item in collection`
BiorxivItem(st, id, keyword) ==
    LET a == Catalogue[id]
        abstract == Lower(a.abstract)
        combined_text == CombinedText(a)
    IN  IF ~Contains(abstract, Lower(keyword)) THEN st
        ELSE IF exclude_keywords # <<>> /\ AnyIn(exclude_keywords, combined_text)
             THEN Say(st, Msg("Excluded (excluded keyword)", a.title, 0))
        ELSE IF required_keywords # <<>> /\ Score(required_keywords, combined_text) = 0
             THEN Say(st, Msg("Excluded (missing required keyword)", a.title, 0))
        ELSE Say([st EXCEPT !.entries = Append(@, BiorxivEntry(a)),
                            !.accepted = Append(@, id)],
                 Msg("Retrieved", a.title, 0))

ProcessItem(st, id, keyword) ==
    CASE script = "pubmed" -> PubMedArticle(st, id)
      [] script = "arxiv" -> ArxivFeedEntry(st, id)
      [] script = "biorxiv" -> BiorxivItem(st, id, keyword)

\* the per-article loop over one page, in page order
RECURSIVE ProcessPage(_, _, _)
ProcessPage(st, ids, keyword) ==
    IF ids = <<>> THEN st
    ELSE ProcessPage(ProcessItem(st, Head(ids), keyword), Tail(ids), keyword)

\* the loop's view of the accumulating state
Acc == [entries |-> entries, processed_links |-> processed_links,
        console |-> console, accepted |-> accepted, quiet |-> args.quiet]

\* the records in `entries`, in order (the dict's values for arXiv)
Records(es) ==
    IF script = "arxiv" THEN [i \in 1..Len(es) |-> es[i].value] ELSE es

(***************************************************************************)
(* The upstream sources                                                    *)
(***************************************************************************)
\* the most results a source holds, over all the queries of one run
MaxTotal == 3

\* how many items one bioRxiv "details" call returns, whatever the caller's
\* batch size (the API's page is fixed; the request carries only the cursor)
BiorxivPageSize == 2

\* the most page requests of one keyword that are followed: a loop that has
\* sent as many is not followed further
MaxRequests == 6

\* the result lists a source may hold for a query: distinct articles, listed
\* in the order the source ranks them (here the order of the catalogue)
ResultLists ==
    { s \in UNION { [1..n -> ArticleIds] : n \in 0..MaxTotal } :
        \A i, j \in 1..Len(s) : i < j => s[i] < s[j] }

\* the items of `list` a request for `size` items from position `start` gets
Page(list, start, size) ==
    IF start < 0 \/ start >= Len(list) \/ size <= 0 THEN <<>>
    ELSE SubSeq(list, start + 1, IF start + size < Len(list) THEN start + size ELSE Len(list))

\* urllib.parse.quote on the characters keywords are made of here
UrlQuoteChar(c) == IF c = " " THEN <<"%","2","0">> ELSE <<c>>

RECURSIVE UrlQuote(_)
UrlQuote(s) == IF s = <<>> THEN <<>> ELSE UrlQuoteChar(Head(s)) \o UrlQuote(Tail(s))

JournalTag(journal) == journal \o <<"[","J","o","u","r","n","a","l","]">>

\* PubMed: the query for one keyword
PubMedQuery(keyword) ==
    <<"(">> \o keyword \o <<")">>
    \o (IF journals_of_interest # <<>>
        THEN <<" ","A","N","D"," ","(">>
             \o Join(<<" ","O","R"," ">>,
                     [i \in 1..Len(journals_of_interest) |->
                         JournalTag(journals_of_interest[i])])
             \o <<")">>
        ELSE <<>>)
    \o (IF exclude_keywords # <<>>
        THEN <<" ","N","O","T"," ">> \o Join(<<" ","N","O","T"," ">>, exclude_keywords)
        ELSE <<>>)

Request(api, term, start, size) ==
    [api |-> api, kw |-> kw, term |-> term, start |-> start, size |-> size]

(***************************************************************************)
(* Initial states: the command line, the files on disk                     *)
(***************************************************************************)
Scripts == {"pubmed", "arxiv", "biorxiv"}

BatchSizes == {1, 2, 3}

DaysBack == {7}

\* the flags the script's parser knows besides --help and --quiet
Flags(src) ==
    IF src = "pubmed" THEN {"days_before_today", "batch_size", "email"}
    ELSE {"days_before_today", "batch_size"}

\* argparse namespaces: a flag not in `given` is None (shown here as 0)
ArgSets(src) ==
    { a \in [ help : BOOLEAN, given : SUBSET Flags(src), quiet : BOOLEAN,
              days_before_today : DaysBack \cup {0}, batch_size : BatchSizes \cup {0} ] :
        /\ ("days_before_today" \in a.given) = (a.days_before_today # 0)
        /\ ("batch_size" \in a.given) = (a.batch_size # 0) }

\* a record an earlier run left in the output file
OldRecord == << Field("Title", <<"o","l","d">>) >>

NoOutput == [exists |-> FALSE, records |-> <<>>]

OldOutput == [exists |-> TRUE, records |-> <<OldRecord>>]

\* summarise_papers.py has not run: no file of its own is looked at
NoSources == [arxiv |-> NoOutput, biorxiv |-> NoOutput, pubmed |-> NoOutput]

NoDigest == [exists |-> FALSE, pairs |-> <<>>, note |-> <<>>]

NotLoaded ==
    [ is_none |-> TRUE, keywords |-> <<>>, exclude_keywords |-> <<>>,
      required_keywords |-> <<>>, journals_of_interest |-> <<>> ]

NoPubDate ==
    [has_year |-> FALSE, Year |-> <<>>, has_month |-> FALSE, Month |-> <<>>,
     has_day |-> FALSE, Day |-> <<>>]

Init ==
    /\ script \in Scripts
    /\ args \in ArgSets(script)
    /\ keyword_file \in KeywordFiles(IF script = "pubmed"
                                     THEN {<<>>, <<JournalCell>>} ELSE {<<>>})
    /\ output_file \in {NoOutput, OldOutput}
    /\ output_before = output_file
    /\ pc = "start"
    /\ exit_code = -1
    /\ keywords_dict = NotLoaded
    /\ kw = 0
    /\ offset = 0
    /\ results = <<>>
    /\ entries = <<>>
    /\ processed_links = {}
    /\ console = <<>>
    /\ requests = <<>>
    /\ accepted = <<>>
    /\ failures = {}
    /\ served = 0
    /\ pub_date = NoPubDate
    /\ date_str = <<>>
    /\ source_files = NoSources
    /\ digest = NoDigest

(***************************************************************************)
(* Argument validation and keyword file check                              *)
(***************************************************************************)
\* --help: the usage text is printed and the script exits with status 0
ShowHelp ==
    /\ pc = "start"
    /\ args.help
    /\ console' = Append(console, Msg("usage", <<>>, 0))
    /\ exit_code' = 0
    /\ pc' = "exit"
    /\ UNCHANGED << script, args, keyword_file, output_file, output_before,
                    keywords_dict, kw, offset, results, entries, processed_links,
                    requests, accepted, failures, served, pub_date, date_str, source_files,
                    digest >>

\* ValidationErrors as it would be if the checks were one if/elif chain
ValidationErrors_FirstOnly(loaded) ==
    IF "days_before_today" \notin args.given
    THEN << Msg("Error: --days_before_today flag is required.", <<>>, 0) >>
    ELSE IF "batch_size" \notin args.given
    THEN << Msg("Error: --batch_size flag is required.", <<>>, 0) >>
    ELSE IF script = "pubmed" /\ "email" \notin args.given
    THEN << Msg("Error: --email flag is required.", <<>>, 0) >>
    ELSE IF loaded.is_none
    THEN << Msg("Error: The keyword file does not exist.", <<>>, 0) >>
    ELSE IF loaded.keywords = <<>>
    THEN << Msg("Error: No keywords found.", <<>>, 0) >>
    ELSE <<>>

\* ValidationErrors as it would be if only the missing file were checked
ValidationErrors_MissingFileOnly(loaded) ==
    (IF "days_before_today" \in args.given THEN <<>>
     ELSE << Msg("Error: --days_before_today flag is required.", <<>>, 0) >>)
    \o (IF "batch_size" \in args.given THEN <<>>
        ELSE << Msg("Error: --batch_size flag is required.", <<>>, 0) >>)
    \o (IF script # "pubmed" \/ "email" \in args.given THEN <<>>
        ELSE << Msg("Error: --email flag is required.", <<>>, 0) >>)
    \o (IF loaded.is_none
        THEN << Msg("Error: The keyword file does not exist.", <<>>, 0) >>
        ELSE <<>>)

\* the error lines of the manual validation, in the order they are appended
ValidationErrors(loaded) ==
    (IF "days_before_today" \in args.given THEN <<>>
     ELSE << Msg("Error: --days_before_today flag is required.", <<>>, 0) >>)
    \o (IF "batch_size" \in args.given THEN <<>>
        ELSE << Msg("Error: --batch_size flag is required.", <<>>, 0) >>)
    \o (IF script # "pubmed" \/ "email" \in args.given THEN <<>>
        ELSE << Msg("Error: --email flag is required.", <<>>, 0) >>)
    \o (IF loaded.is_none
        THEN << Msg("Error: The keyword file does not exist.", <<>>, 0) >>
        ELSE IF loaded.keywords = <<>>
        THEN << Msg("Error: No keywords found.", <<>>, 0) >>
        ELSE <<>>)

\* validation, keyword loading, and either exit(1) or the set-up of the run
Validate ==
    /\ pc = "start"
    /\ ~args.help
    /\ LET loaded == load_keywords_from_file(script, keyword_file)
           errors == ValidationErrors(loaded)
       IN  /\ keywords_dict' = loaded
           /\ IF errors # <<>>
              THEN /\ console' = console \o errors
                   /\ exit_code' = 1
                   /\ pc' = "exit"
              ELSE /\ console' = console
                   /\ exit_code' = exit_code
                   /\ pc' = "keywords"
    /\ entries' = <<>>
    /\ processed_links' = {}
    /\ UNCHANGED << script, args, keyword_file, output_file, output_before, kw,
                    offset, results, requests, accepted, failures, served, pub_date,
                    date_str, source_files,
                    digest >>

(***************************************************************************)
(* Keyword loop and Paginated Fetcher                                      *)
(***************************************************************************)
LoopFrame == << script, args, keyword_file, output_file, output_before, exit_code,
                keywords_dict, pub_date, date_str, source_files,
                    digest >>

PageFrame == << kw, results, served >>

\* `for keyword in keywords:` takes the next keyword and resets the offset.
\* The source then holds some result list for the query; bioRxiv's listing
\* depends on the date range only, so it is the same for every keyword.
NextKeyword ==
    /\ pc = "keywords"
    /\ kw < Len(keywords)
    /\ kw' = kw + 1
    /\ offset' = 0
    /\ IF script = "biorxiv" /\ kw > 0
       THEN results' = results
       ELSE results' \in {s \in ResultLists : served + Len(s) <= MaxTotal}
    /\ served' = IF script = "biorxiv" /\ kw > 0 THEN served ELSE served + Len(results')
    /\ pc' = "paging"
    /\ UNCHANGED << entries, processed_links, console, requests, accepted, failures >>
    /\ UNCHANGED LoopFrame

\* the state after the per-article loop ran over `ids`
Processed(ids) == ProcessPage(Acc, ids, keywords[kw])

\* the loop's variables take the values the per-article loop left
Accumulate(st) ==
    \E done \in {st} :
        /\ entries' = done.entries
        /\ processed_links' = done.processed_links
        /\ console' = done.console
        /\ accepted' = done.accepted

\* PubMedPage as it would be if the loop ended on an empty page only
PubMedPage_UntilEmpty ==
    /\ pc = "paging" /\ script = "pubmed"
    /\ LET query == PubMedQuery(keywords[kw])
           pubmed_ids == Page(results, offset, args.batch_size)
           esearch == Request("esearch", query, offset, args.batch_size)
           efetch == Request("efetch", <<>>, 0, Len(pubmed_ids))
       IN  IF pubmed_ids = <<>>
           THEN /\ requests' = Append(requests, esearch)
                /\ pc' = "keywords"
                /\ UNCHANGED << offset, entries, processed_links, console, accepted >>
           ELSE /\ requests' = requests \o << esearch, efetch >>
                /\ Accumulate(Processed(pubmed_ids))
                /\ offset' = offset + args.batch_size
                /\ pc' = "paging"
    /\ UNCHANGED failures
    /\ UNCHANGED PageFrame
    /\ UNCHANGED LoopFrame

\* PubMed: one iteration of `while True` in which esearch and efetch succeed
PubMedPage ==
    /\ pc = "paging" /\ script = "pubmed"
    /\ LET query == PubMedQuery(keywords[kw])
           pubmed_ids == Page(results, offset, args.batch_size)
           count == Len(results)
           esearch == Request("esearch", query, offset, args.batch_size)
           efetch == Request("efetch", <<>>, 0, Len(pubmed_ids))
       IN  IF pubmed_ids = <<>>
           THEN /\ requests' = Append(requests, esearch)
                /\ pc' = "keywords"
                /\ UNCHANGED << offset, entries, processed_links, console, accepted >>
           ELSE /\ requests' = requests \o << esearch, efetch >>
                /\ Accumulate(Processed(pubmed_ids))
                /\ offset' = offset + args.batch_size
                /\ pc' = IF offset + args.batch_size >= count THEN "keywords" ELSE "paging"
    /\ UNCHANGED failures
    /\ UNCHANGED PageFrame
    /\ UNCHANGED LoopFrame

\* PubMed: esearch (or reading its reply) raises; the error is printed and
\* the while loop is left
PubMedSearchError ==
    /\ pc = "paging" /\ script = "pubmed"
    /\ requests' = Append(requests,
                          Request("esearch", PubMedQuery(keywords[kw]), offset, args.batch_size))
    /\ console' = Append(console, Msg("Error querying PubMed", <<>>, 0))
    /\ failures' = failures \cup {kw}
    /\ pc' = "keywords"
    /\ UNCHANGED << offset, entries, processed_links, accepted >>
    /\ UNCHANGED PageFrame
    /\ UNCHANGED LoopFrame

\* PubMed: esearch returned ids and efetch (or reading its reply) raises
PubMedFetchError ==
    /\ pc = "paging" /\ script = "pubmed"
    /\ LET pubmed_ids == Page(results, offset, args.batch_size)
       IN  /\ pubmed_ids # <<>>
           /\ requests' = requests \o
                  << Request("esearch", PubMedQuery(keywords[kw]), offset, args.batch_size),
                     Request("efetch", <<>>, 0, Len(pubmed_ids)) >>
    /\ console' = Append(console, Msg("Error fetching PubMed entries", <<>>, 0))
    /\ failures' = failures \cup {kw}
    /\ pc' = "keywords"
    /\ UNCHANGED << offset, entries, processed_links, accepted >>
    /\ UNCHANGED PageFrame
    /\ UNCHANGED LoopFrame

\* arXiv: one iteration of `while True` in which the feed is fetched and parsed
ArxivPage ==
    /\ pc = "paging" /\ script = "arxiv"
    /\ LET page == Page(results, offset, args.batch_size)
       IN  /\ requests' = Append(requests,
                   Request("query", UrlQuote(keywords[kw]), offset, args.batch_size))
           /\ IF page = <<>>
              THEN /\ pc' = "keywords"
                   /\ UNCHANGED << offset, entries, processed_links, console, accepted >>
              ELSE /\ Accumulate(Processed(page))
                   /\ offset' = offset + args.batch_size
                   /\ pc' = "paging"
    /\ UNCHANGED failures
    /\ UNCHANGED PageFrame
    /\ UNCHANGED LoopFrame

\* arXiv: the request fails and feedparser.parse swallows the error: it
\* returns a feed without entries, which the loop takes for the end
ArxivFeedEmptyOnError ==
    /\ pc = "paging" /\ script = "arxiv"
    /\ requests' = Append(requests,
            Request("query", UrlQuote(keywords[kw]), offset, args.batch_size))
    /\ failures' = failures \cup {kw}
    /\ pc' = "keywords"
    /\ UNCHANGED << offset, entries, processed_links, console, accepted >>
    /\ UNCHANGED PageFrame
    /\ UNCHANGED LoopFrame

\* an exception nothing catches: traceback on stderr, exit status 1
Crash ==
    /\ console' = Append(console, Msg("Traceback", <<>>, 0))
    /\ exit_code' = 1
    /\ pc' = "exit"

\* arXiv: the request fails with an error feedparser.parse lets through;
\* the call is not inside a try
ArxivFeedRaises ==
    /\ pc = "paging" /\ script = "arxiv"
    /\ requests' = Append(requests,
            Request("query", UrlQuote(keywords[kw]), offset, args.batch_size))
    /\ failures' = failures \cup {kw}
    /\ Crash
    /\ UNCHANGED << script, args, keyword_file, output_file, output_before,
                    keywords_dict, kw, offset, results, entries, processed_links,
                    accepted, served, pub_date, date_str, source_files,
                    digest >>

\* bioRxiv: one iteration of `while True` with status 200 and a collection
BiorxivPage ==
    /\ pc = "paging" /\ script = "biorxiv"
    /\ Len(SelectSeq(requests, LAMBDA r : r.kw = kw)) < MaxRequests
    /\ LET collection == Page(results, offset, BiorxivPageSize)
       IN  /\ requests' = Append(requests, Request("details", <<>>, offset, 0))
           /\ IF collection = <<>>
              THEN /\ pc' = "keywords"
                   /\ UNCHANGED << offset, entries, processed_links, console, accepted >>
              ELSE /\ Accumulate(Processed(collection))
                   /\ offset' = offset + args.batch_size
                   /\ pc' = "paging"
    /\ UNCHANGED failures
    /\ UNCHANGED PageFrame
    /\ UNCHANGED LoopFrame

\* bioRxiv: a JSON reply with another status than 200 or without a
\* collection; the failure is printed and the while loop is left
BiorxivBadReply ==
    /\ pc = "paging" /\ script = "biorxiv"
    /\ requests' = Append(requests, Request("details", <<>>, offset, 0))
    /\ console' = Append(console, Msg("Failed to retrieve data from bioRxiv", <<>>, 0))
    /\ failures' = failures \cup {kw}
    /\ pc' = "keywords"
    /\ UNCHANGED << offset, entries, processed_links, accepted >>
    /\ UNCHANGED PageFrame
    /\ UNCHANGED LoopFrame

\* bioRxiv: requests.get raises (transport) or response.json() raises (the
\* body is not JSON); neither call is inside a try
BiorxivRaises ==
    /\ pc = "paging" /\ script = "biorxiv"
    /\ requests' = Append(requests, Request("details", <<>>, offset, 0))
    /\ failures' = failures \cup {kw}
    /\ Crash
    /\ UNCHANGED << script, args, keyword_file, output_file, output_before,
                    keywords_dict, kw, offset, results, entries, processed_links,
                    accepted, served, pub_date, date_str, source_files,
                    digest >>

\* The per-article loop meets a record it cannot read: PubMed, an article
\* without Journal element (article_info['Journal'] raises KeyError); arXiv,
\* a published text that strptime rejects (ValueError; raised for an entry
\* that is no duplicate, after its "Retrieved" line and after its link was
\* remembered); bioRxiv, an item without title or abstract key (KeyError).
\* No loop body is inside a try: the articles before it were processed, the
\* exception ends the process.
ArticleRaises ==
    /\ pc = "paging"
    /\ LET page == Page(results, offset,
                        IF script = "biorxiv" THEN BiorxivPageSize ELSE args.batch_size)
       IN  /\ page # <<>>
           /\ requests' = requests \o
                  (CASE script = "pubmed" ->
                          << Request("esearch", PubMedQuery(keywords[kw]), offset,
                                     args.batch_size),
                             Request("efetch", <<>>, 0, Len(page)) >>
                     [] script = "arxiv" ->
                          << Request("query", UrlQuote(keywords[kw]), offset,
                                     args.batch_size) >>
                     [] script = "biorxiv" ->
                          << Request("details", <<>>, offset, 0) >>)
           /\ \E i \in 1..Len(page) :
                  LET before == ProcessPage(Acc, SubSeq(page, 1, i - 1), keywords[kw])
                      bad == Catalogue[page[i]]
                      at == IF script = "arxiv"
                            THEN [Say(before, Msg("Retrieved", bad.title, 0))
                                     EXCEPT !.processed_links = @ \cup {bad.link}]
                            ELSE before
                  IN  /\ script = "arxiv" => bad.link \notin before.processed_links
                      /\ entries' = at.entries
                      /\ processed_links' = at.processed_links
                      /\ accepted' = at.accepted
                      /\ console' = Append(at.console, Msg("Traceback", <<>>, 0))
    /\ exit_code' = 1
    /\ pc' = "exit"
    /\ UNCHANGED << script, args, keyword_file, output_file, output_before,
                    keywords_dict, kw, offset, results, failures, served, pub_date,
                    date_str, source_files,
                    digest >>

(***************************************************************************)
(* Output Writer                                                           *)
(***************************************************************************)
EntriesWritten == <<" ","e","n","t","r","i","e","s"," ","s","u","c","c","e","s","s",
                    "f","u","l","l","y"," ","w","r","i","t","t","e","n">>

UniqueEntriesWritten == <<" ","u","n","i","q","u","e">> \o EntriesWritten

\* WriteOutput as it would be if the file were opened with "a"
WriteOutput_Appends ==
    /\ pc = "keywords"
    /\ kw = Len(keywords)
    /\ IF entries # <<>>
       THEN /\ output_file' = [exists |-> TRUE,
                               records |-> output_file.records \o Records(entries)]
            /\ console' = Append(console,
                   Msg("summary",
                       IF script = "arxiv" THEN UniqueEntriesWritten ELSE EntriesWritten,
                       Len(entries)))
       ELSE /\ output_file' = output_file
            /\ console' = Append(console, Msg("No matching entries found", <<>>, 0))
    /\ exit_code' = 0
    /\ pc' = "exit"
    /\ UNCHANGED << script, args, keyword_file, output_before, keywords_dict, kw,
                    offset, results, entries, processed_links, requests, accepted,
                    failures, served, pub_date, date_str, source_files,
                    digest >>

\* WriteOutput as it would be if the file were opened before `if entries`
WriteOutput_OpensFirst ==
    /\ pc = "keywords"
    /\ kw = Len(keywords)
    /\ output_file' = [exists |-> TRUE, records |-> Records(entries)]
    /\ IF entries # <<>>
       THEN console' = Append(console,
                   Msg("summary",
                       IF script = "arxiv" THEN UniqueEntriesWritten ELSE EntriesWritten,
                       Len(entries)))
       ELSE console' = Append(console, Msg("No matching entries found", <<>>, 0))
    /\ exit_code' = 0
    /\ pc' = "exit"
    /\ UNCHANGED << script, args, keyword_file, output_before, keywords_dict, kw,
                    offset, results, entries, processed_links, requests, accepted,
                    failures, served, pub_date, date_str, source_files,
                    digest >>

\* WriteOutput as it would be if the latest entry were written first
WriteOutput_NewestOnTop ==
    /\ pc = "keywords"
    /\ kw = Len(keywords)
    /\ IF entries # <<>>
       THEN /\ output_file' = [exists |-> TRUE, records |-> [n \in 1..Len(entries) |->
                                              Records(entries)[Len(entries) + 1 - n]]]
            /\ console' = Append(console,
                   Msg("summary",
                       IF script = "arxiv" THEN UniqueEntriesWritten ELSE EntriesWritten,
                       Len(entries)))
       ELSE /\ output_file' = output_file
            /\ console' = Append(console, Msg("No matching entries found", <<>>, 0))
    /\ exit_code' = 0
    /\ pc' = "exit"
    /\ UNCHANGED << script, args, keyword_file, output_before, keywords_dict, kw,
                    offset, results, entries, processed_links, requests, accepted,
                    failures, served, pub_date, date_str, source_files,
                    digest >>

\* after the keyword loop: the file is opened with "w" and the records
\* written when there are any, else only a message is printed
WriteOutput ==
    /\ pc = "keywords"
    /\ kw = Len(keywords)
    /\ IF entries # <<>>
       THEN /\ output_file' = [exists |-> TRUE, records |-> Records(entries)]
            /\ console' = Append(console,
                   Msg("summary",
                       IF script = "arxiv" THEN UniqueEntriesWritten ELSE EntriesWritten,
                       Len(entries)))
       ELSE /\ output_file' = output_file
            /\ console' = Append(console, Msg("No matching entries found", <<>>, 0))
    /\ exit_code' = 0
    /\ pc' = "exit"
    /\ UNCHANGED << script, args, keyword_file, output_before, keywords_dict, kw,
                    offset, results, entries, processed_links, requests, accepted,
                    failures, served, pub_date, date_str, source_files,
                    digest >>

Next ==
    \/ ShowHelp
    \/ Validate
    \/ NextKeyword
    \/ PubMedPage
    \/ PubMedSearchError
    \/ PubMedFetchError
    \/ ArxivPage
    \/ ArxivFeedEmptyOnError
    \/ ArxivFeedRaises
    \/ BiorxivPage
    \/ BiorxivBadReply
    \/ BiorxivRaises
    \/ ArticleRaises
    \/ WriteOutput

Spec == Init /\ [][Next]_vars

(***************************************************************************)
(* The same scripts, --batch_size 0 among the command lines                *)
(***************************************************************************)
\* type=int accepts every integer and the scripts check `is None` only: the
\* command lines of ArgSets and those that give --batch_size 0
ArgSetsAnyBatch(src) ==
    ArgSets(src) \cup
    { [a EXCEPT !.batch_size = 0] : a \in {b \in ArgSets(src) : "batch_size" \in b.given} }

InitBatch ==
    /\ script \in Scripts
    /\ args \in ArgSetsAnyBatch(script)
    /\ keyword_file \in KeywordFiles(IF script = "pubmed"
                                     THEN {<<>>, <<JournalCell>>} ELSE {<<>>})
    /\ output_file \in {NoOutput, OldOutput}
    /\ output_before = output_file
    /\ pc = "start"
    /\ exit_code = -1
    /\ keywords_dict = NotLoaded
    /\ kw = 0
    /\ offset = 0
    /\ results = <<>>
    /\ entries = <<>>
    /\ processed_links = {}
    /\ console = <<>>
    /\ requests = <<>>
    /\ accepted = <<>>
    /\ failures = {}
    /\ served = 0
    /\ pub_date = NoPubDate
    /\ date_str = <<>>
    /\ source_files = NoSources
    /\ digest = NoDigest

SpecBatch == InitBatch /\ [][Next]_vars

(***************************************************************************)
(* The PubMed date formatter on its own: every PubDate of PubDates is      *)
(* formatted once.                                                         *)
(***************************************************************************)
Years == { <<"2","0","2","3">>, <<"1","9","9","9">> }

Months == { <<"M","a","r">>, <<"m","a","r">>, <<"M","A","R","C","H">>,
            <<"M","a","r","c","h">>, <<"J","a","n">>, <<"D","e","c">>,
            <<"d","e","c","e","m","b","e","r">>, <<"S","e","p","t">>,
            <<"J","U","L">>, <<"S","p","r","i","n","g">>, <<"M","a">>,
            <<"0","3">>, <<>> }

Days == { <<>>, <<"5">>, <<"0","5">>, <<"1","5">>, <<"3","1">> }

\* the PubDate elements the formatter is given: each of Year, Month, Day
\* either missing or one of the texts above
PubDates ==
    { pd \in [ has_year : BOOLEAN, Year : Years \cup {<<>>},
               has_month : BOOLEAN, Month : Months,
               has_day : BOOLEAN, Day : Days ] :
        /\ pd.has_year = (pd.Year # <<>>)
        /\ ~pd.has_month => pd.Month = <<>>
        /\ ~pd.has_day => pd.Day = <<>> }

InitDate ==
    /\ script = "pubmed"
    /\ args = [help |-> FALSE, given |-> {}, quiet |-> FALSE,
               days_before_today |-> 0, batch_size |-> 0]
    /\ keyword_file = MissingFile
    /\ output_file = NoOutput
    /\ output_before = NoOutput
    /\ pc = "date"
    /\ exit_code = -1
    /\ keywords_dict = NotLoaded
    /\ kw = 0
    /\ offset = 0
    /\ results = <<>>
    /\ entries = <<>>
    /\ processed_links = {}
    /\ console = <<>>
    /\ requests = <<>>
    /\ accepted = <<>>
    /\ failures = {}
    /\ served = 0
    /\ pub_date \in PubDates
    /\ date_str = <<>>
    /\ source_files = NoSources
    /\ digest = NoDigest

\* date_str is built from the PubDate
FormatDate ==
    /\ pc = "date"
    /\ date_str' = DateStr(pub_date)
    /\ pc' = "date_done"
    /\ UNCHANGED << script, args, keyword_file, output_file, output_before, exit_code,
                    keywords_dict, kw, offset, results, entries, processed_links,
                    console, requests, accepted, failures, served, pub_date,
                    source_files, digest >>

SpecDate == InitDate /\ [][FormatDate]_vars


(***************************************************************************)
(* Consolidation: summarise_papers.py                                      *)
(***************************************************************************)
\* the labels as they stand in the files
LabelText ==
    ("Title" :> <<"T","i","t","l","e">>) @@
    ("Authors" :> <<"A","u","t","h","o","r","s">>) @@
    ("Journal" :> <<"J","o","u","r","n","a","l">>) @@
    ("Date" :> <<"D","a","t","e">>) @@
    ("DOI" :> <<"D","O","I">>) @@
    ("URL" :> <<"U","R","L">>) @@
    ("Abstract" :> <<"A","b","s","t","r","a","c","t">>)

\* one record as the retrieval scripts write it: a "Label: value\n" line
\* for each field, then "\n"
RecordText(r) ==
    Flatten([i \in 1..Len(r) |->
                LabelText[r[i].label] \o <<":", " ">> \o r[i].value \o <<"\n">>])
    \o <<"\n">>

\* file.writelines(entries)
FileText(records) == Flatten([i \in 1..Len(records) |-> RecordText(records[i])])

\* a date as datetime holds it
NoDate == [ok |-> FALSE, ymd |-> <<0, 0, 0>>]

DaysInMonth(y, m) ==
    IF m = 2
    THEN (IF y % 4 = 0 /\ (y % 100 # 0 \/ y % 400 = 0) THEN 29 ELSE 28)
    ELSE IF m \in {4, 6, 9, 11} THEN 30 ELSE 31

\* datetime.strptime(date_str, "%Y-%m-%d"): a four-digit year, month and
\* day of one or two digits, a date of the calendar; ok is FALSE where
\* strptime raises ValueError
ParseDate(date_text) ==
    LET parts == SplitOn(date_text, "-")
    IN  IF /\ Len(parts) = 3
           /\ \A i \in 1..3 : IsDigits(parts[i])
           /\ Len(parts[1]) = 4 /\ Len(parts[2]) <= 2 /\ Len(parts[3]) <= 2
           /\ ToNumber(parts[1]) >= 1
           /\ ToNumber(parts[2]) \in 1..12
           /\ ToNumber(parts[3]) \in 1..DaysInMonth(ToNumber(parts[1]), ToNumber(parts[2]))
        THEN [ok |-> TRUE,
              ymd |-> << ToNumber(parts[1]), ToNumber(parts[2]), ToNumber(parts[3]) >>]
        ELSE NoDate

\* entry = {}
EmptyEntry ==
    [has_title |-> FALSE, title |-> <<>>, has_date |-> FALSE, date |-> NoDate,
     has_url |-> FALSE, url |-> <<>>]

\* the `for line in f` loop of extract_entries
RECURSIVE ExtractLines(_, _, _)
ExtractLines(lines, entry, found) ==
    IF lines = <<>> THEN found
    ELSE LET line == Strip(Head(lines))
             rest == Tail(lines)
         IN  IF StartsWith(line, <<"T","i","t","l","e",":">>)
             THEN ExtractLines(rest,
                      [entry EXCEPT !.has_title = TRUE,
                                    !.title = SubSeq(line, 8, Len(line))], found)
             ELSE IF StartsWith(line, <<"D","a","t","e",":">>)
             THEN ExtractLines(rest,
                      [entry EXCEPT !.has_date = TRUE,
                                    !.date = ParseDate(SubSeq(line, 7, Len(line)))], found)
             ELSE IF StartsWith(line, <<"U","R","L",":">>)
             THEN ExtractLines(rest,
                      [entry EXCEPT !.has_url = TRUE,
                                    !.url = SubSeq(line, 6, Len(line))], found)
             ELSE IF line = <<>>
             THEN ExtractLines(rest, EmptyEntry,
                      IF entry.has_title /\ entry.has_date /\ entry.has_url
                      THEN Append(found, entry) ELSE found)
             ELSE ExtractLines(rest, entry, found)

extract_entries(file) ==
    IF file.exists THEN ExtractLines(Lines(FileText(file.records)), EmptyEntry, <<>>)
    ELSE <<>>

\* files, in the order of the list
SourceNames == <<"arxiv", "biorxiv", "pubmed">>

\* os.path.basename(file).split('_')[1]
SourceTag ==
    ("arxiv" :> <<"a","r","x","i","v">>) @@
    ("biorxiv" :> <<"b","i","o","R","x","i","v">>) @@
    ("pubmed" :> <<"p","u","b","m","e","d">>)

\* all_entries before the sort
AllEntries(files) ==
    Flatten([i \in 1..Len(SourceNames) |-> extract_entries(files[SourceNames[i]])])

\* datetime a is later than datetime b
Later(a, b) ==
    \/ a[1] > b[1]
    \/ a[1] = b[1] /\ a[2] > b[2]
    \/ a[1] = b[1] /\ a[2] = b[2] /\ a[3] > b[3]

\* sorted(es, key=date, reverse=True) of entries that all have a date: the
\* later date first, entries of one date in the order they had
RECURSIVE SortNewestFirst(_)
SortNewestFirst(es) ==
    IF es = <<>> THEN <<>>
    ELSE LET e == Last(es)
             front == SortNewestFirst(SubSeq(es, 1, Len(es) - 1))
             stay == {i \in 1..Len(front) : ~Later(e.date.ymd, front[i].date.ymd)}
             n == Cardinality(stay)
         IN  SubSeq(front, 1, n) \o << e >> \o SubSeq(front, n + 1, Len(front))

\* the sort compares the keys; with two entries or more, a None among the
\* keys makes a comparison raise TypeError
SortRaisesOn(es) == Len(es) >= 2 /\ \E i \in 1..Len(es) : ~es[i].date.ok

NoEntriesNote ==
    <<"N","o"," ","e","n","t","r","i","e","s"," ","f","o","u","n","d">>

OldDigest ==
    [exists |-> TRUE, pairs |-> << [title |-> <<"o","l","d">>, url |-> <<"u","0">>] >>,
     note |-> <<>>]

\* the most records a source file holds
MaxFileRecords == 2

\* the contents a source file may have: the records of some articles
IdLists(ids) == UNION { [1..n -> ids] : n \in 1..MaxFileRecords }

ArxivFiles ==
    {NoOutput} \cup
    { [exists |-> TRUE, records |-> [i \in 1..Len(l) |-> ArxivEntry(Catalogue[l[i]])]] :
        l \in IdLists({1, 3}) }

BiorxivFiles ==
    {NoOutput} \cup
    { [exists |-> TRUE, records |-> [i \in 1..Len(l) |-> BiorxivEntry(Catalogue[l[i]])]] :
        l \in IdLists({2, 3}) }

PubMedFiles ==
    {NoOutput} \cup
    { [exists |-> TRUE, records |-> [i \in 1..Len(l) |-> PubMedEntry(Catalogue[l[i]])]] :
        l \in IdLists({2, 3, 4}) }

InitDigest ==
    /\ script = "summarise"
    /\ args \in { [help |-> h, given |-> {}, quiet |-> FALSE,
                   days_before_today |-> 0, batch_size |-> 0] : h \in BOOLEAN }
    /\ keyword_file = MissingFile
    /\ output_file = NoOutput
    /\ output_before = NoOutput
    /\ pc = "digest"
    /\ exit_code = -1
    /\ keywords_dict = NotLoaded
    /\ kw = 0
    /\ offset = 0
    /\ results = <<>>
    /\ entries = <<>>
    /\ processed_links = {}
    /\ console = <<>>
    /\ requests = <<>>
    /\ accepted = <<>>
    /\ failures = {}
    /\ served = 0
    /\ pub_date = NoPubDate
    /\ date_str = <<>>
    /\ source_files \in [arxiv : ArxivFiles, biorxiv : BiorxivFiles, pubmed : PubMedFiles]
    /\ digest \in {NoDigest, OldDigest}

DigestFrame == << script, args, keyword_file, output_file, output_before, keywords_dict,
                  kw, offset, results, processed_links, requests, accepted, failures,
                  served, pub_date, date_str, source_files >>

\* --help: print_help() prints the usage text and calls sys.exit()
DigestHelp ==
    /\ pc = "digest"
    /\ args.help
    /\ console' = Append(console, Msg("usage", <<>>, 0))
    /\ exit_code' = 0
    /\ pc' = "digest_done"
    /\ UNCHANGED << entries, digest >>
    /\ UNCHANGED DigestFrame

\* the sources are read, the entries sorted, the digest written, the
\* messages printed
Summarise ==
    /\ pc = "digest"
    /\ ~args.help
    /\ ~SortRaisesOn(AllEntries(source_files))
    /\ LET all_entries == SortNewestFirst(AllEntries(source_files))
       IN  /\ entries' = all_entries
           /\ digest' =
                  IF all_entries # <<>>
                  THEN [exists |-> TRUE,
                        pairs |-> [i \in 1..Len(all_entries) |->
                                      [title |-> all_entries[i].title,
                                       url |-> all_entries[i].url]],
                        note |-> <<>>]
                  ELSE [exists |-> TRUE, pairs |-> <<>>, note |-> NoEntriesNote]
    /\ console' = console
           \o << Msg("Titles and URLs have been successfully written", <<>>, 0) >>
           \o LET IsMissing(name) == ~source_files[name].exists
                  missing == SelectSeq(SourceNames, IsMissing)
              IN  [i \in 1..Len(missing) |->
                      Msg("No entries were found for", SourceTag[missing[i]], 0)]
    /\ exit_code' = 0
    /\ pc' = "digest_done"
    /\ UNCHANGED DigestFrame

\* sorted() raises TypeError before the digest is opened
SortRaises ==
    /\ pc = "digest"
    /\ ~args.help
    /\ SortRaisesOn(AllEntries(source_files))
    /\ entries' = AllEntries(source_files)
    /\ console' = Append(console, Msg("Traceback", <<>>, 0))
    /\ exit_code' = 1
    /\ pc' = "digest_done"
    /\ UNCHANGED digest
    /\ UNCHANGED DigestFrame

NextDigest ==
    \/ DigestHelp
    \/ Summarise
    \/ SortRaises

SpecDigest == InitDigest /\ [][NextDigest]_vars

(***************************************************************************)
(* Vocabulary of the properties                                            *)
(***************************************************************************)
\* k occurs in text when letter case is ignored: some window of text agrees
\* with k letter by letter
Occurs(k, text) ==
    \E i \in 0..(Len(text) - Len(k)) :
        \A j \in 1..Len(k) : LowerChar(text[i + j]) = LowerChar(k[j])

TitleAndAbstract(title, abstract) == title \o <<" ">> \o abstract

HasMessage(kind) == \E i \in 1..Len(console) : console[i].kind = kind

Labels(r) == [i \in 1..Len(r) |-> r[i].label]

Value(r, label) == r[CHOOSE i \in 1..Len(r) : r[i].label = label].value

\* the records of the file this run wrote
Written == IF pc = "exit" /\ output_file # output_before THEN output_file.records ELSE <<>>

\* the page requests of keyword number k, in the order they were sent
PageRequestsOf(k) ==
    LET IsPage(r) == r.kw = k /\ r.api # "efetch"
    IN  SelectSeq(requests, IsPage)

CeilDiv(n, b) == (n + b - 1) \div b

\* pagination of the current keyword has ended without a failure
KeywordDone ==
    /\ pc = "keywords" /\ kw >= 1 /\ kw \notin failures
    /\ Len(results) >= 1 /\ args.batch_size >= 1

StartsAtMultiples(reqs) == \A i \in 1..Len(reqs) : reqs[i].start = (i - 1) * args.batch_size

(***************************************************************************)
(* C1                                                                      *)
(***************************************************************************)
BadKeywordFile ==
    \/ ~keyword_file.exists
    \/ "keywords" \notin keyword_file.present
    \/ keyword_file.keywords = <<>>

SixLabels == <<"Title", "Authors", "Journal", "Date", "URL", "Abstract">>

ScriptLabels ==
    CASE script = "pubmed" -> SixLabels
      [] script = "arxiv" -> <<"Title", "Authors", "Date", "URL", "Abstract">>
      [] script = "biorxiv" -> <<"Title", "Authors", "Date", "DOI", "URL", "Abstract">>

C3_CeilPageRequests ==
    KeywordDone =>
        /\ Len(PageRequestsOf(kw)) = CeilDiv(Len(results), args.batch_size)
        /\ StartsAtMultiples(PageRequestsOf(kw))

\* C3, amended: the page requests of a keyword are sent at the offsets
\* 0, B, 2B, ...; PubMed, which reads the reported count, sends exactly
\* ceil(N/B) of them; arXiv and bioRxiv, which stop at the first empty
\* page, send ceil(N/B) + 1.
C3_PageRequestsPerScript ==
    KeywordDone =>
        /\ Len(PageRequestsOf(kw)) =
               CeilDiv(Len(results), args.batch_size)
               + (IF script = "pubmed" THEN 0 ELSE 1)
        /\ StartsAtMultiples(PageRequestsOf(kw))

\* PubMed pages three results by two with two requests, the second partial
C3_Witness ==
    /\ KeywordDone /\ script = "pubmed"
    /\ Len(results) = 3 /\ args.batch_size = 2
    /\ Len(PageRequestsOf(kw)) = 2
    /\ PageRequestsOf(kw)[2].start = 2

(***************************************************************************)
(* C4                                                                      *)
(***************************************************************************)
NoExclusionIn(title, abstract) ==
    \A i \in 1..Len(exclude_keywords) :
        ~Occurs(exclude_keywords[i], TitleAndAbstract(title, abstract))

\* C4: in the arXiv and bioRxiv scripts an article whose title and abstract
\* contain an exclusion keyword (as a substring, letter case ignored) is
\* rejected, and no written record has a title and abstract containing an
\* exclusion keyword.
C4_NoExclusionKeywordWritten ==
    script \in {"arxiv", "biorxiv"} =>
        /\ \A n \in 1..Len(accepted) :
               NoExclusionIn(Catalogue[accepted[n]].title, Catalogue[accepted[n]].abstract)
        /\ \A n \in 1..Len(Written) :
               NoExclusionIn(Value(Written[n], "Title"), Value(Written[n], "Abstract"))

(***************************************************************************)
(* C5                                                                      *)
(***************************************************************************)
PassesExclusion(id) == NoExclusionIn(Catalogue[id].title, Catalogue[id].abstract)

HasRequired(id) ==
    \/ required_keywords = <<>>
    \/ \E i \in 1..Len(required_keywords) :
           Occurs(required_keywords[i],
                  TitleAndAbstract(Catalogue[id].title, Catalogue[id].abstract))

\* the article comes as far as the keyword filters: arXiv, a link not seen
\* before and a date inside the window; bioRxiv, the keyword in the abstract
ReachesFilters(id) ==
    IF script = "arxiv"
    THEN /\ Catalogue[id].link \notin processed_links
         /\ Catalogue[id].age_days <= args.days_before_today
    ELSE Occurs(keywords[kw], Catalogue[id].abstract)

\* the page the last request of the next state was answered with
PageServed ==
    Page(results, Last(requests').start,
         IF script = "arxiv" THEN args.batch_size ELSE BiorxivPageSize)

\* a step of arXiv or bioRxiv in which a page arrives and is processed
PageStep ==
    /\ pc = "paging" /\ script \in {"arxiv", "biorxiv"}
    /\ Len(requests') = Len(requests) + 1
    /\ failures' = failures
    /\ pc' # "exit"

\* C5: among the articles of a page that pass the exclusion filter, exactly
\* those are accepted for which the required list is empty or at least one
\* required keyword occurs in title and abstract, letter case ignored.
C5_RequiredAnyMatch ==
    [][ PageStep =>
          LET Accept(id) == ReachesFilters(id) /\ PassesExclusion(id) /\ HasRequired(id)
          IN  accepted' = accepted \o SelectSeq(PageServed, Accept) ]_vars

\* required [cas, gel]: article 1 holds "Gel" only and is accepted, while
\* another article was turned down for lacking both
C5_Witness ==
    /\ script = "biorxiv"
    /\ Len(required_keywords) = 2
    /\ \E n \in 1..Len(accepted) : accepted[n] = 1
    /\ ~Occurs(ReqCas, TitleAndAbstract(Article1.title, Article1.abstract))
    /\ Occurs(ReqGel, TitleAndAbstract(Article1.title, Article1.abstract))
    /\ HasMessage("Excluded (missing required keyword)")

(***************************************************************************)
(* C6                                                                      *)
(***************************************************************************)
UrlsDistinct(rs) ==
    \A m, n \in 1..Len(rs) : Value(rs[m], "URL") = Value(rs[n], "URL") => m = n

\* C6: in the arXiv script no two records have the same URL, in memory
\* and in the written file, and an accepted article has exactly one record
\* however often its URL was returned.
C6_OneRecordPerUrl ==
    script = "arxiv" =>
        /\ UrlsDistinct(Records(entries))
        /\ UrlsDistinct(Written)
        /\ \A n \in 1..Len(accepted) :
               Cardinality({m \in 1..Len(entries) :
                   Value(Records(entries)[m], "URL") = Catalogue[accepted[n]].link}) = 1

\* article 3 was returned twice (two "Retrieved" lines) and the written file
\* has one record with its URL
C6_Witness ==
    /\ script = "arxiv" /\ pc = "exit" /\ exit_code = 0
    /\ Cardinality({i \in 1..Len(console) :
           console[i].kind = "Retrieved" /\ console[i].text = Article3.title}) = 2
    /\ Cardinality({n \in 1..Len(Written) :
           Value(Written[n], "URL") = Article3.link}) = 1

(***************************************************************************)
(* C7                                                                      *)
(***************************************************************************)
\* C7: the three scripts decide alike on an article, whatever the server
\* filtered: an article is accepted by any of them only if its title and
\* abstract hold no exclusion keyword and, when required keywords are
\* configured, at least one of them.
C7_SameClientSideDecision ==
    \A n \in 1..Len(accepted) : PassesExclusion(accepted[n]) /\ HasRequired(accepted[n])

(***************************************************************************)
(* C8                                                                      *)
(***************************************************************************)
ErrorLogged ==
    \/ HasMessage("Error querying PubMed")
    \/ HasMessage("Error fetching PubMed entries")
    \/ HasMessage("Failed to retrieve data from bioRxiv")

\* C8: in each of the three scripts, once a page request of keyword k has
\* failed the error is logged, k is paged no further, every later keyword
\* is paged from offset 0, the records accumulated are written and the
\* process exits with code zero.
C8_FailureEndsKeywordOnly ==
    \A k \in failures :
        /\ ErrorLogged
        /\ pc = "paging" => kw # k
        /\ pc = "exit" =>
               /\ exit_code = 0
               /\ \A j \in (k + 1)..Len(keywords) :
                      /\ PageRequestsOf(j) # <<>>
                      /\ PageRequestsOf(j)[1].start = 0
               /\ entries # <<>> => output_file.records = Records(entries)

(***************************************************************************)
(* C9                                                                      *)
(***************************************************************************)
\* a finished run of one keyword without failures, exclusion and required
\* lists empty, no journal filter
PlainRunDone ==
    /\ pc = "exit" /\ exit_code = 0 /\ ~args.help
    /\ Len(keywords) = 1 /\ failures = {}
    /\ exclude_keywords = <<>> /\ required_keywords = <<>>
    /\ journals_of_interest = <<>>

\* the returned articles that hold the keyword in the abstract (for arXiv,
\* those of them dated inside the window)
Matching ==
    {id \in Range(results) :
        /\ Occurs(keywords[1], Catalogue[id].abstract)
        /\ script = "arxiv" => Catalogue[id].age_days <= args.days_before_today}

\* C9: with empty exclusion and required lists, of the articles the source
\* returns for the keyword exactly those holding it in the abstract are in
\* the output file, one record each, and the summary line reads
\* "<n> entries successfully written" with n the number of records written.
C9_OnlyMatchingWritten ==
    PlainRunDone =>
        /\ Range(accepted) = Matching
        /\ Len(Written) = Cardinality(Matching)
        /\ Matching # {} =>
               \E i \in 1..Len(console) :
                   /\ console[i].kind = "summary"
                   /\ console[i].text = EntriesWritten
                   /\ console[i].n = Len(Written)

(***************************************************************************)
(* C10                                                                     *)
(***************************************************************************)
MonthAbbreviations ==
    << <<"j","a","n">>, <<"f","e","b">>, <<"m","a","r">>, <<"a","p","r">>,
       <<"m","a","y">>, <<"j","u","n">>, <<"j","u","l">>, <<"a","u","g">>,
       <<"s","e","p">>, <<"o","c","t">>, <<"n","o","v">>, <<"d","e","c">> >>

DecimalDigits == <<"0","1","2","3","4","5","6","7","8","9">>

TwoDigits(n) == << DecimalDigits[(n \div 10) + 1], DecimalDigits[(n % 10) + 1] >>

\* the month whose abbreviation the first three letters of m spell
MonthsNamed(m) ==
    {i \in 1..Len(MonthAbbreviations) :
        /\ Len(m) >= Len(MonthAbbreviations[i])
        /\ \A j \in 1..Len(MonthAbbreviations[i]) :
               LowerChar(m[j]) = MonthAbbreviations[i][j]}

ExpectedDate(pd) ==
    LET named == IF pd.has_month THEN MonthsNamed(pd.Month) ELSE {}
        mm == IF named = {} THEN <<"0","1">> ELSE TwoDigits(CHOOSE i \in named : TRUE)
        dd == IF ~pd.has_day \/ pd.Day = <<>> THEN <<"0","1">>
              ELSE IF Len(pd.Day) = 1 THEN <<"0">> \o pd.Day
              ELSE pd.Day
    IN  IF pd.has_year
        THEN pd.Year \o <<"-">> \o mm \o <<"-">> \o dd
        ELSE <<"U","n","k","n","o","w","n"," ","D","a","t","e">>

\* C10: with a year the PubMed Date value is YYYY-MM-DD, MM the number of
\* the month named by the first three letters of the month text whatever
\* their case (01 when it names none), DD the day padded to two digits (01
\* when absent); without a year the value is "Unknown Date".
C10_DateValue ==
    pc = "date_done" => date_str = ExpectedDate(pub_date)

\* year 2023, month "Mar", no day: 2023-03-01
C10_Witness ==
    /\ pc = "date_done"
    /\ pub_date.has_year /\ pub_date.Year = <<"2","0","2","3">>
    /\ pub_date.has_month /\ pub_date.Month = <<"M","a","r">>
    /\ ~pub_date.has_day
    /\ date_str = <<"2","0","2","3","-","0","3","-","0","1">>

(***************************************************************************)
(* C11                                                                     *)
(***************************************************************************)
\* the run came to the Output Writer
WriterRan == pc = "exit" /\ exit_code = 0 /\ ~args.help

\* C11: when a run that accumulated n >= 1 records writes its output, the
\* file holds exactly these n records and nothing of an earlier run; at no
\* time does the file hold anything else than what it held before the run or
\* the records of this run.
C11_OutputOverwritten ==
    /\ (WriterRan /\ entries # <<>>) =>
           /\ output_file.exists
           /\ output_file.records = Records(entries)
           /\ \A n \in 1..Len(output_file.records) : output_file.records[n] # OldRecord
    /\ \/ output_file = output_before
       \/ output_file = [exists |-> TRUE, records |-> Records(entries)]

\* a file of an earlier run was there and is replaced by this run's records
C11_Witness ==
    /\ WriterRan /\ entries # <<>>
    /\ output_before = OldOutput
    /\ output_file.records = Records(entries)

(***************************************************************************)
(* C12                                                                     *)
(***************************************************************************)
\* C12: a run that comes to the Output Writer with zero records prints the
\* "no matching entries" message and leaves the output file as it was:
\* absent if it was absent, with an earlier run's content otherwise.
C12_NothingWrittenWhenEmpty ==
    (WriterRan /\ entries = <<>>) =>
        /\ HasMessage("No matching entries found")
        /\ ~HasMessage("summary")
        /\ output_file = output_before

\* an earlier run's file survives a run without records that sent requests
C12_Witness ==
    /\ WriterRan /\ entries = <<>> /\ requests # <<>>
    /\ output_before = OldOutput /\ output_file = OldOutput
    /\ HasMessage("No matching entries found")

(***************************************************************************)
(* C13                                                                     *)
(***************************************************************************)
FlagError(flag) ==
    CASE flag = "days_before_today" -> "Error: --days_before_today flag is required."
      [] flag = "batch_size" -> "Error: --batch_size flag is required."
      [] flag = "email" -> "Error: --email flag is required."

Categories ==
    IF script = "pubmed"
    THEN {"keywords", "exclude_keywords", "required_keywords", "journals_of_interest"}
    ELSE {"keywords", "exclude_keywords", "required_keywords"}

\* C14: load_keywords_from_file returns the missing-file sentinel exactly
\* when the path does not exist; otherwise every category is a list, empty
\* for a section the file lacks and holding the key names of the section,
\* in file order, for a section it has.
C14_LoaderReturnsKeyNames ==
    (~args.help /\ pc # "start") =>
        /\ keywords_dict.is_none <=> ~keyword_file.exists
        /\ keyword_file.exists =>
               \A section \in Categories :
                   keywords_dict[section] =
                       IF section \in keyword_file.present
                       THEN keyword_file[section] ELSE <<>>

(***************************************************************************)
(* C15                                                                     *)
(***************************************************************************)
\* the pages the page requests of keyword number k were answered with
PagesServed(k) ==
    LET reqs == PageRequestsOf(k)
    IN  [i \in 1..Len(reqs) |->
            Page(results, reqs[i].start,
                 IF script = "biorxiv" THEN BiorxivPageSize ELSE reqs[i].size)]

\* C15: in the PubMed and bioRxiv scripts the pages of one keyword's
\* pagination cover the source's result list in disjoint, contiguous
\* ranges: put one after the other they are the result list, no article
\* twice and none left out, whatever the batch size.
C15_PagesPartitionResults ==
    (KeywordDone /\ script \in {"pubmed", "biorxiv"}) =>
        Flatten(PagesServed(kw)) = results

(***************************************************************************)
(* C16                                                                     *)
(***************************************************************************)
\* C16 as stated: in the arXiv script an article is rejected as a duplicate
\* only if its URL was accepted before, that is, has a record in the
\* accumulated set (the duplicate check being the last of the filters).
C16_DuplicateOnlyIfAccepted ==
    [][ (PageStep /\ script = "arxiv") =>
          \A i \in 1..Len(PageServed) :
              Catalogue[PageServed[i]].link \in processed_links =>
                  \E m \in 1..Len(entries) : entries[m].key = Catalogue[PageServed[i]].link
      ]_vars

\* the lines the arXiv script prints for one entry: the duplicate check
\* comes first, then the date window, the exclusion filter, the required
\* keywords, the first rejection ending the entry
ArxivLines(id) ==
    << Msg("Retrieved", Catalogue[id].title, 0) >>
    \o (IF Catalogue[id].link \in processed_links THEN <<>>
        ELSE IF Catalogue[id].age_days > args.days_before_today THEN <<>>
        ELSE IF ~PassesExclusion(id)
        THEN << Msg("Excluded (excluded keyword)", Catalogue[id].title, 0) >>
        ELSE IF ~HasRequired(id)
        THEN << Msg("Excluded (low score)", Catalogue[id].title, 0) >>
        ELSE <<>>)

\* the lines the bioRxiv script prints for one item: keyword in the
\* abstract, then the exclusion filter, then the required keywords
BiorxivLines(id) ==
    IF ~Occurs(keywords[kw], Catalogue[id].abstract) THEN <<>>
    ELSE IF ~PassesExclusion(id)
    THEN << Msg("Excluded (excluded keyword)", Catalogue[id].title, 0) >>
    ELSE IF ~HasRequired(id)
    THEN << Msg("Excluded (missing required keyword)", Catalogue[id].title, 0) >>
    ELSE << Msg("Retrieved", Catalogue[id].title, 0) >>

\* C16, amended: the filters run in a fixed order and the first rejection
\* ends the article.  arXiv: duplicate check first, against every URL
\* fetched before in this invocation whether it was accepted or rejected,
\* then date window, exclusion filter, required keywords; every fetched URL
\* is remembered.  bioRxiv: keyword in the abstract, exclusion filter,
\* required keywords.
C16_FilterOrderPerScript ==
    [][ PageStep =>
          /\ ~args.quiet =>
                 console' = console \o
                     Flatten([i \in 1..Len(PageServed) |->
                                 IF script = "arxiv" THEN ArxivLines(PageServed[i])
                                 ELSE BiorxivLines(PageServed[i])])
          /\ script = "arxiv" =>
                 processed_links' = processed_links \cup
                     {Catalogue[PageServed[i]].link : i \in 1..Len(PageServed)}
      ]_vars

\* arXiv returned the excluded article 2 under two keywords: two
\* "Retrieved" lines, one "Excluded" line, its URL remembered, no record
C16_Witness ==
    /\ script = "arxiv" /\ kw = 2
    /\ Cardinality({i \in 1..Len(console) :
           console[i] = Msg("Retrieved", Article2.title, 0)}) = 2
    /\ Cardinality({i \in 1..Len(console) :
           console[i] = Msg("Excluded (excluded keyword)", Article2.title, 0)}) = 1
    /\ Article2.link \in processed_links
    /\ \A m \in 1..Len(entries) : entries[m].key # Article2.link

(***************************************************************************)
(* C17                                                                     *)
(***************************************************************************)
\* an exception was raised in the per-article loop (request failures are
\* those of the keywords in `failures`)
ArticleError == HasMessage("Traceback") /\ kw \notin failures

\* C17: an error raised while one article is processed is isolated: the
\* process goes on, every keyword is still paged, the accumulated records
\* are written and the exit code is zero.
C17_ArticleErrorIsolated ==
    (ArticleError /\ pc = "exit") =>
        /\ exit_code = 0
        /\ kw = Len(keywords)
        /\ entries # <<>> => output_file.records = Records(entries)

(***************************************************************************)
(* C18                                                                     *)
(***************************************************************************)
\* C18: whatever source files are present and whatever their Date values,
\* the consolidation completes normally and the digest holds one title and
\* URL pair for each parsed record, the records with a date newest first.
C18_DigestAlwaysWritten ==
    (pc = "digest_done" /\ ~args.help) =>
        /\ exit_code = 0
        /\ digest.exists
        /\ Len(digest.pairs) = Len(AllEntries(source_files))
        /\ \A i \in 1..Len(digest.pairs) :
               /\ digest.pairs[i].title = entries[i].title
               /\ digest.pairs[i].url = entries[i].url
        /\ \A i, j \in 1..Len(entries) :
               (i < j /\ entries[i].date.ok /\ entries[j].date.ok)
                   => ~Later(entries[j].date.ymd, entries[i].date.ymd)

(***************************************************************************)
(* C19                                                                     *)
(***************************************************************************)
\* how often x occurs in the sequence s
Count(s, x) == Cardinality({n \in 1..Len(s) : s[n] = x})

\* the record the running script writes for an article
RecordOf(id) ==
    IF script = "pubmed" THEN PubMedEntry(Catalogue[id]) ELSE BiorxivEntry(Catalogue[id])

\* C19: the PubMed and bioRxiv scripts do not deduplicate: the written file
\* holds the record of an article as often as the article was accepted, so
\* twice when it was accepted under two keywords, and the summary line
\* counts every one of these records.
C19_NoDedupAcrossKeywords ==
    (script \in {"pubmed", "biorxiv"} /\ WriterRan /\ accepted # <<>>) =>
        /\ \A id \in ArticleIds : Count(Written, RecordOf(id)) = Count(accepted, id)
        /\ Len(Written) = Len(accepted)
        /\ \E i \in 1..Len(console) :
               /\ console[i].kind = "summary"
               /\ console[i].n = Len(accepted)

\* PubMed returned article 1 for the first and for the second keyword: two
\* equal records in the file, "2 entries"
C19_Witness ==
    /\ script = "pubmed" /\ WriterRan /\ kw = 2
    /\ accepted = <<1, 1>>
    /\ Len(PageRequestsOf(1)) = 1 /\ Len(PageRequestsOf(2)) = 1
    /\ Len(Written) = 2 /\ Written[1] = Written[2]
    /\ \E i \in 1..Len(console) : console[i].kind = "summary" /\ console[i].n = 2

(***************************************************************************)
(* C20                                                                     *)
(***************************************************************************)
\* the titles of the lines printed in the step, one line for each candidate
TitlesPrinted ==
    [i \in 1..(Len(console') - Len(console)) |-> console'[Len(console) + i].text]

TitlesOf(ids) == [i \in 1..Len(ids) |-> Catalogue[ids[i]].title]

\* a step of the bioRxiv script in which a page arrives and is processed
BiorxivPageStep == PageStep /\ script = "biorxiv"

\* the request of the step carries the cursor and no keyword
RequestWithoutKeyword ==
    /\ Last(requests').api = "details"
    /\ Last(requests').term = <<>>
    /\ Last(requests').start = offset

\* C20 as stated: an item fetched by the bioRxiv script is a candidate for
\* keyword k exactly when k occurs, letter case ignored, in its abstract or
\* its title; the page requests do not depend on k.
C20_KeywordInAbstractOrTitle ==
    [][ BiorxivPageStep =>
          LET Candidate(id) ==
                  \/ Occurs(keywords[kw], Catalogue[id].abstract)
                  \/ Occurs(keywords[kw], Catalogue[id].title)
          IN  /\ ~args.quiet => TitlesPrinted = TitlesOf(SelectSeq(PageServed, Candidate))
              /\ RequestWithoutKeyword ]_vars

\* C20, amended: an item fetched by the bioRxiv script is a candidate for
\* keyword k exactly when k occurs, letter case ignored, in its abstract
\* (the title is not looked at); the matching is client-side, the page
\* requests carry the date range and the cursor only.
C20_KeywordInAbstract ==
    [][ BiorxivPageStep =>
          LET Candidate(id) == Occurs(keywords[kw], Catalogue[id].abstract)
          IN  /\ ~args.quiet => TitlesPrinted = TitlesOf(SelectSeq(PageServed, Candidate))
              /\ \A n \in 1..Len(accepted') : Candidate(accepted'[n]) \/ n <= Len(accepted)
              /\ RequestWithoutKeyword ]_vars

\* under the keyword "dna" article 4, which has it in the title only, was
\* fetched and passed over while article 3 was retrieved
C20_Witness ==
    /\ script = "biorxiv" /\ ~args.quiet /\ pc = "keywords"
    /\ kw = 2 /\ kw \notin failures /\ 1 \notin failures
    /\ keywords[kw] = <<"d","n","a">>
    /\ results = <<3, 4>>
    /\ args.batch_size = BiorxivPageSize
    /\ Occurs(keywords[kw], Article4.title) /\ ~Occurs(keywords[kw], Article4.abstract)
    /\ Count(accepted, 4) = 1 /\ Count(accepted, 3) = 1

(***************************************************************************)
(* C21                                                                     *)
(***************************************************************************)
\* a step of the PubMed script in which a page of articles arrives and is
\* processed
PubMedPageStep ==
    /\ pc = "paging" /\ script = "pubmed"
    /\ Len(requests') = Len(requests) + 2
    /\ failures' = failures
    /\ pc' # "exit"

\* the journal allow-list as the keyword file has it
AllowList == keyword_file.journals_of_interest

\* the journal name of the article contains an allow-listed name, letter case
\* ignored
JournalListed(id) ==
    \E j \in 1..Len(AllowList) : Occurs(AllowList[j], Catalogue[id].journal)

\* C21: of the articles of a page the PubMed script accepts exactly those
\* whose journal name contains an allow-listed name as a case-insensitive
\* substring when an allow-list is configured, and all of them when the
\* allow-list is empty.
C21_JournalFilter ==
    [][ PubMedPageStep =>
          LET Pass(id) == AllowList = <<>> \/ JournalListed(id)
          IN  accepted' = accepted \o
                  SelectSeq(Page(results, offset, args.batch_size), Pass) ]_vars

\* allow-list [Cell]: of the page "Cell Reports", "Nature", "cell" the
\* first and the third article are accepted
C21_Witness ==
    /\ script = "pubmed" /\ pc = "keywords" /\ kw = 1 /\ kw \notin failures
    /\ AllowList = <<JournalCell>>
    /\ results = <<1, 2, 3>> /\ args.batch_size = 3
    /\ Len(PageRequestsOf(1)) = 1
    /\ accepted = <<1, 3>>

(***************************************************************************)
(* C22                                                                     *)
(***************************************************************************)
\* the record each script makes of an article
EntryOf(id) ==
    CASE script = "pubmed" -> PubMedEntry(Catalogue[id])
      [] script = "arxiv" -> ArxivEntry(Catalogue[id])
      [] script = "biorxiv" -> BiorxivEntry(Catalogue[id])

\* C22: the records of the written file stand in the order in which they
\* were accumulated: the n-th record is the record of the n-th acceptance
\* (PubMed, bioRxiv: over keywords and pages; arXiv: the n-th URL that was
\* accepted, a URL being accepted when it is first seen or never).
C22_WrittenInAccumulationOrder ==
    (WriterRan /\ entries # <<>>) =>
        Written = [n \in 1..Len(accepted) |-> EntryOf(accepted[n])]

\* arXiv: article 3 came for the first keyword, articles 2 and 3 for the
\* second: the file holds the record of 3, then that of 2
C22_Witness ==
    /\ script = "arxiv" /\ WriterRan /\ kw = 2
    /\ accepted = <<3, 2>>
    /\ results = <<2, 3>>
    /\ Len(Written) = 2
    /\ Value(Written[1], "URL") = Article3.link
    /\ Value(Written[2], "URL") = Article2.link

(***************************************************************************)
(* C23                                                                     *)
(***************************************************************************)
\* C23: whatever integer --batch_size is, the pagination loop of a keyword
\* ends after finitely many page requests.  A source holds MaxTotal results
\* at most, and a loop that ends has come to the end of them by one request
\* for each result and one that finds nothing more: no keyword ever has
\* more than MaxTotal + 1 page requests.
C23_PaginationTerminates ==
    \A k \in 1..kw : Len(PageRequestsOf(k)) <= MaxTotal + 1

(***************************************************************************)
(* C24                                                                     *)
(***************************************************************************)
\* the records of the source files that are there, in the order of `files`
SourceRecords ==
    Flatten([i \in 1..Len(SourceNames) |-> source_files[SourceNames[i]].records])

\* the title and the URL a record was written with
PairOf(r) == [title |-> Value(r, "Title"), url |-> Value(r, "URL")]

\* C24: when the consolidation step has run, the digest holds one title+URL
\* pair for each record of the source files that are there, the pair of that
\* record's title and URL: as many pairs as records, and each pair as often
\* as there are records with that title and URL.
C24_EveryRecordInDigest ==
    (script = "summarise" /\ pc = "digest_done" /\ ~args.help) =>
        LET pairs == [i \in 1..Len(SourceRecords) |-> PairOf(SourceRecords[i])]
        IN  /\ digest.exists
            /\ Len(digest.pairs) = Len(SourceRecords)
            /\ \A i \in 1..Len(pairs) : Count(digest.pairs, pairs[i]) = Count(pairs, pairs[i])

(***************************************************************************)
(* C25                                                                     *)
(***************************************************************************)
\* the page the request of the step is answered with
PageOfStep ==
    Page(results, offset, IF script = "biorxiv" THEN BiorxivPageSize ELSE args.batch_size)

\* the requests of an iteration that gets `page`
RequestsFor(page) ==
    CASE script = "pubmed" ->
            << Request("esearch", PubMedQuery(keywords[kw]), offset, args.batch_size) >>
            \o (IF page = <<>> THEN <<>>
                ELSE << Request("efetch", <<>>, 0, Len(page)) >>)
      [] script = "arxiv" ->
            << Request("query", UrlQuote(keywords[kw]), offset, args.batch_size) >>
      [] script = "biorxiv" ->
            << Request("details", <<>>, offset, 0) >>

\* what the per-article loop leaves of a page when --quiet is the other way
\* round, all else being what it is
OtherRun == ProcessPage([Acc EXCEPT !.quiet = ~args.quiet], PageOfStep, keywords[kw])

\* a step in which a page request is answered and the answer gone through
PageAnswered == pc = "paging" /\ pc' # "exit" /\ failures' = failures

\* C25: --quiet changes the console only.  In every iteration of a
\* pagination loop the requests sent and the new offset are given by the
\* keyword, the offset, the batch size and the source's answer, and the
\* entries, the links remembered and the acceptances the per-article loop
\* leaves are those it leaves on the same answer with --quiet the other way
\* round; the writer then writes the entries.  So two runs that differ in
\* --quiet only and get the same answers send the same requests and write
\* the same file.
C25_QuietChangesConsoleOnly ==
    [][ /\ PageAnswered =>
              /\ requests' = requests \o RequestsFor(PageOfStep)
              /\ offset' = IF PageOfStep = <<>> THEN offset ELSE offset + args.batch_size
              /\ entries' = OtherRun.entries
              /\ processed_links' = OtherRun.processed_links
              /\ accepted' = OtherRun.accepted
        /\ (pc = "keywords" /\ pc' = "exit") =>
              output_file' = IF entries # <<>>
                             THEN [exists |-> TRUE, records |-> Records(entries)]
                             ELSE output_file ]_vars

\* a quiet bioRxiv run with an exclusion list: of the page of articles 1 and
\* 2 the first was accepted, the second ("AntiVIRal") excluded, and nothing
\* was printed; the file holds the record of article 1
C25_Witness ==
    /\ script = "biorxiv" /\ args.quiet /\ WriterRan
    /\ exclude_keywords # <<>>
    /\ kw = 1 /\ results = <<1, 2>> /\ failures = {}
    /\ accepted = <<1>>
    /\ \A i \in 1..Len(console) : console[i].kind = "summary"
    /\ Written = << BiorxivEntry(Article1) >>

(***************************************************************************)
(* C26                                                                     *)
(***************************************************************************)
\* the article was published within days_before_today days before the run
InWindow(id) == Catalogue[id].age_days <= args.days_before_today

\* the articles a record may be the record of: those with its URL
ArticlesOf(r) == {id \in ArticleIds : Catalogue[id].link = Value(r, "URL")}

\* C26: in the arXiv script every record accumulated or written is the
\* record of an article published within days_before_today days before the
\* run; an older article is never accepted, under whichever keyword and
\* however often it is returned.
C26_OnlyWindowWritten ==
    script = "arxiv" =>
        /\ \A n \in 1..Len(accepted) : InWindow(accepted[n])
        /\ \A i \in 1..Len(entries) : \A id \in ArticlesOf(entries[i].value) : InWindow(id)
        /\ \A i \in 1..Len(Written) :
               /\ ArticlesOf(Written[i]) # {}
               /\ \A id \in ArticlesOf(Written[i]) : InWindow(id)

\* article 1, thirty days old with a window of seven, was returned for the
\* first keyword and again, with article 2, for the second: the file holds
\* the record of article 2 only
C26_Witness ==
    /\ script = "arxiv" /\ WriterRan /\ ~args.quiet /\ kw = 2 /\ failures = {}
    /\ ~InWindow(1)
    /\ results = <<1, 2>>
    /\ Len(console) >= 3
    /\ console[1].text = Article1.title /\ console[2].text = Article1.title
    /\ accepted = <<2>>
    /\ Written = << ArxivEntry(Article2) >>

==============================================================================
